---- MODULE Spec2Model ----
(***************************************************************************)
(* Progress listeners of the F# language client (src/client/extension.ts). *)
(* Two listeners (check files, analyze projects) consume start, increment  *)
(* and end notifications and drive a host progress indicator obtained from *)
(* window.withProgress.                                                    *)
(***************************************************************************)
EXTENDS Integers, Sequences, FiniteSets

(***************************************************************************)
(* Bounds of the model.                                                    *)
(***************************************************************************)
MaxTotal == 1
MaxReports == 2
MaxSurfaces == 2
MaxResolveCalls == 2
MaxObserved == 3
MaxRunTotal == 50

(***************************************************************************)
(* IEEE-754 binary64 arithmetic, as far as percentComplete needs it.       *)
(* JavaScript numbers are doubles: countChecked / (nFiles + 1) is rounded  *)
(* to 53 significant bits, the product with 100 is rounded again, and      *)
(* Math.floor is taken of that.  Bit strings are sequences of 0/1, most    *)
(* significant bit first; every intermediate integer stays small.          *)
(***************************************************************************)
MantissaBits == 53

RECURSIVE IntBits(_)
IntBits(q) == IF q = 0 THEN <<>> ELSE Append(IntBits(q \div 2), q % 2)

RECURSIVE BitsToInt(_)
BitsToInt(bits) ==
    IF bits = <<>> THEN 0
    ELSE 2 * BitsToInt(SubSeq(bits, 1, Len(bits) - 1)) + bits[Len(bits)]

RECURSIVE AnyOne(_)
AnyOne(bits) == IF bits = <<>> THEN FALSE ELSE bits[1] = 1 \/ AnyOne(Tail(bits))

\* bits + 1, same length; an all-ones string wraps to all zeros
RECURSIVE IncBits(_)
IncBits(bits) ==
    IF bits = <<>> THEN <<>>
    ELSE LET n == Len(bits) IN
         IF bits[n] = 0 THEN Append(SubSeq(bits, 1, n - 1), 1)
         ELSE Append(IncBits(SubSeq(bits, 1, n - 1)), 0)

\* Round the exact value (bits followed by a non-zero tail iff sticky) * 2^exp
\* to MantissaBits significant bits, ties to even.  bits starts with a 1.
RoundNearestEven(bits, sticky, exp) ==
    IF Len(bits) <= MantissaBits THEN [mant |-> bits, exp |-> exp]
    ELSE LET kept == SubSeq(bits, 1, MantissaBits)
             dropped == SubSeq(bits, MantissaBits + 1, Len(bits))
             e == exp + Len(dropped)
             guard == dropped[1]
             rest == sticky \/ AnyOne(Tail(dropped))
             up == guard = 1 /\ (rest \/ kept[MantissaBits] = 1)
         IN  IF ~up THEN [mant |-> kept, exp |-> e]
             ELSE IF AnyOne([i \in 1..MantissaBits |-> 1 - kept[i]])
                  THEN [mant |-> IncBits(kept), exp |-> e]
                  ELSE [mant |-> <<1>> \o [i \in 1..(MantissaBits - 1) |-> 0], exp |-> e + 1]

\* Long division: the next count bits of r / n, for 0 <= r < n
RECURSIVE FracBits(_, _, _)
FracBits(r, n, count) ==
    IF count = 0 THEN <<>>
    ELSE <<(2 * r) \div n>> \o FracBits((2 * r) % n, n, count - 1)

\* number of zero bits before the first one bit of r / n, 0 < r < n
RECURSIVE LeadingZeros(_, _)
LeadingZeros(r, n) == IF 2 * r >= n THEN 0 ELSE 1 + LeadingZeros(2 * r, n)

\* the remainder left after z bits of r / n
RECURSIVE ShiftRem(_, _, _)
ShiftRem(r, n, z) == IF r = 0 \/ z = 0 THEN r ELSE ShiftRem((2 * r) % n, n, z - 1)

\* the double nearest to k / n, for integers k > 0, n > 0: mant * 2^exp
FloatDiv(k, n) ==
    LET ib == IntBits(k \div n)
        r == k % n
    IN  IF ib # <<>>
        THEN LET count == MantissaBits + 1 - Len(ib)
             IN  RoundNearestEven(ib \o FracBits(r, n, count),
                                  ShiftRem(r, n, count) # 0, -count)
        ELSE LET z == LeadingZeros(r, n)
                 count == MantissaBits + 1
             IN  RoundNearestEven(FracBits(ShiftRem(r, n, z), n, count),
                                  ShiftRem(r, n, z + count) # 0, -(z + count))

\* bits * m as a bit string, least significant bit first in the recursion
RECURSIVE MulSmall(_, _, _)
MulSmall(bits, m, carry) ==
    IF bits = <<>> THEN IntBits(carry)
    ELSE LET n == Len(bits)
             v == bits[n] * m + carry
         IN  IF v % 2 = 0 THEN Append(MulSmall(SubSeq(bits, 1, n - 1), m, v \div 2), 0)
             ELSE Append(MulSmall(SubSeq(bits, 1, n - 1), m, v \div 2), 1)

\* the double nearest to x * m, for a double x > 0 and a small integer m > 0
FloatMul(x, m) == RoundNearestEven(MulSmall(x.mant, m, 0), FALSE, x.exp)

\* Math.floor of a double x > 0 whose integer part is small
FloatFloor(x) ==
    LET n == Len(x.mant) + x.exp
    IN  IF n <= 0 THEN 0
        ELSE IF x.exp >= 0 THEN BitsToInt(x.mant \o [i \in 1..x.exp |-> 0])
        ELSE BitsToInt(SubSeq(x.mant, 1, n))

\* Math.floor(checked / (files + 1) * 100) in double arithmetic
FloorPercent(checked, files) ==
    IF checked = 0 THEN 0
    ELSE FloatFloor(FloatMul(FloatDiv(checked, files + 1), 100))

\* FloorPercent tabulated once for the arguments the model reaches:
\* PercentTable[files + 1][checked + 1]
PercentTable ==
    [f \in 1..(MaxRunTotal + 1) |->
        [k \in 1..(MaxRunTotal + 2) |-> FloorPercent(k - 1, f - 1)] \o <<>>] \o <<>>

\* percentComplete with the denominator nFiles instead of nFiles + 1
percentCompleteNoBias(checked, files) ==
    IF files = 0 THEN 0 ELSE FloorPercent(checked, files - 1)

\* percentComplete(): Math.floor(this.countChecked / (this.nFiles + 1) * 100)
percentComplete(checked, files) ==
    IF files <= MaxRunTotal /\ checked <= MaxRunTotal + 1
    THEN PercentTable[files + 1][checked + 1]
    ELSE FloorPercent(checked, files)

(***************************************************************************)
(* The two event classes of createProgressListeners and their titles.      *)
(***************************************************************************)
checkEvent == "check"
analyzeEvent == "analyze"
Classes == {checkEvent, analyzeEvent}

\* names.title(nFiles): `Check ${nFiles} files` / `Analyze ${nFiles} projects`
title(c, n) ==
    IF c = checkEvent THEN <<"Check", n, "files">> ELSE <<"Analyze", n, "projects">>

\* labels carried by increment notifications
FileNames == {"a", "b"}

(***************************************************************************)
(* Values of the fields progress and resolve.  Both are declared without   *)
(* an initialiser, so they start undefined; endCheckFiles stores null in   *)
(* progress.  A held value is the handle of the surface withProgress made. *)
(***************************************************************************)
Undefined == [tag |-> "undefined", id |-> 0]
Null == [tag |-> "null", id |-> 0]
Handle(h) == [tag |-> "surface", id |-> h]

\* JavaScript's v != null is false for both null and undefined
NotNull(v) == v.tag = "surface"

VARIABLES
    countChecked,   \* per listener: this.countChecked
    nFiles,         \* per listener: this.nFiles
    progress,       \* per listener: this.progress
    resolve,        \* per listener: this.resolve
    surfaces,       \* the host's progress indicators, in order of acquisition
    error,          \* what the last handler raised
    last,           \* the notification delivered last, with its payload
    observed        \* per listener: increment notifications since its last start

vars == <<countChecked, nFiles, progress, resolve, surfaces, error, last, observed>>

NoNotification == [class |-> "none", kind |-> "none", n |-> 0, fileName |-> ""]

Init ==
    /\ countChecked = [c \in Classes |-> 0]
    /\ nFiles = [c \in Classes |-> 0]
    /\ progress = [c \in Classes |-> Undefined]
    /\ resolve = [c \in Classes |-> Undefined]
    /\ surfaces = <<>>
    /\ error = "none"
    /\ last = NoNotification
    /\ observed = [c \in Classes |-> 0]

\* withProgress titled with the total of the run before, this.nFiles
withProgressStaleTotal(c, n) ==
    Append(surfaces, [owner |-> c, title |-> title(c, nFiles[c]), open |-> TRUE,
                      resolveCalls |-> 0, reports |-> <<>>])

(***************************************************************************)
(* window.withProgress(options, task): the host opens an indicator with    *)
(* the title and calls task at once with its Progress object; the          *)
(* indicator stays open until the promise task returned is settled.        *)
(***************************************************************************)
withProgress(c, n) ==
    Append(surfaces, [owner |-> c, title |-> title(c, n), open |-> TRUE,
                      resolveCalls |-> 0, reports |-> <<>>])

\* startCheckFiles on counters shared by all listeners instead of one pair each
startCheckFilesShared(c, n) ==
    /\ surfaces' = withProgress(c, n)
    /\ countChecked' = [d \in Classes |-> 0]
    /\ nFiles' = [d \in Classes |-> n]
    /\ progress' = [progress EXCEPT ![c] = Handle(Len(surfaces) + 1)]
    /\ resolve' = [resolve EXCEPT ![c] = Handle(Len(surfaces) + 1)]
    /\ error' = "none"
    /\ last' = [class |-> c, kind |-> "start", n |-> n, fileName |-> ""]

\* startCheckFiles without the assignment this.countChecked = 0
startCheckFilesKeepsCount(c, n) ==
    /\ surfaces' = withProgress(c, n)
    /\ nFiles' = [nFiles EXCEPT ![c] = n]
    /\ progress' = [progress EXCEPT ![c] = Handle(Len(surfaces) + 1)]
    /\ resolve' = [resolve EXCEPT ![c] = Handle(Len(surfaces) + 1)]
    /\ UNCHANGED countChecked
    /\ error' = "none"
    /\ last' = [class |-> c, kind |-> "start", n |-> n, fileName |-> ""]

\* startCheckFiles without the assignment this.resolve = resolve
startCheckFilesKeepsResolve(c, n) ==
    /\ surfaces' = withProgress(c, n)
    /\ countChecked' = [countChecked EXCEPT ![c] = 0]
    /\ nFiles' = [nFiles EXCEPT ![c] = n]
    /\ progress' = [progress EXCEPT ![c] = Handle(Len(surfaces) + 1)]
    /\ UNCHANGED resolve
    /\ error' = "none"
    /\ last' = [class |-> c, kind |-> "start", n |-> n, fileName |-> ""]

\* progressListener.startCheckFiles(nFiles), reached from the start notification
startCheckFiles(c, n) ==
    /\ surfaces' = withProgress(c, n)
    /\ countChecked' = [countChecked EXCEPT ![c] = 0]
    /\ nFiles' = [nFiles EXCEPT ![c] = n]
    /\ progress' = [progress EXCEPT ![c] = Handle(Len(surfaces) + 1)]
    /\ resolve' = [resolve EXCEPT ![c] = Handle(Len(surfaces) + 1)]
    /\ error' = "none"
    /\ last' = [class |-> c, kind |-> "start", n |-> n, fileName |-> ""]

\* a report that carries the increment but not the file name
reportWithoutMessage(h, fileName, increment) ==
    [surfaces EXCEPT ![h].reports =
        Append(@, [message |-> "", increment |-> increment])]

\* this.progress.report({message, increment}) on the surface with handle h
report(h, fileName, increment) ==
    [surfaces EXCEPT ![h].reports =
        Append(@, [message |-> fileName, increment |-> increment])]

\* checkFile counting the file outside the test of this.progress
checkFileCountsAlways(c, fileName) ==
    /\ countChecked' = [countChecked EXCEPT ![c] = @ + 1]
    /\ IF NotNull(progress[c])
       THEN surfaces' = report(progress[c].id, fileName,
                               percentComplete(countChecked[c] + 1, nFiles[c])
                               - percentComplete(countChecked[c], nFiles[c]))
       ELSE surfaces' = surfaces
    /\ UNCHANGED <<nFiles, progress, resolve>>
    /\ error' = "none"
    /\ last' = [class |-> c, kind |-> "increment", n |-> 0, fileName |-> fileName]

\* checkFile reporting oldPercent - newPercent
checkFileSwapsPercents(c, fileName) ==
    /\ IF NotNull(progress[c])
       THEN LET oldPercent == percentComplete(countChecked[c], nFiles[c])
                newPercent == percentComplete(countChecked[c] + 1, nFiles[c])
            IN  /\ countChecked' = [countChecked EXCEPT ![c] = @ + 1]
                /\ surfaces' = report(progress[c].id, fileName, oldPercent - newPercent)
       ELSE UNCHANGED <<countChecked, surfaces>>
    /\ UNCHANGED <<nFiles, progress, resolve>>
    /\ error' = "none"
    /\ last' = [class |-> c, kind |-> "increment", n |-> 0, fileName |-> fileName]

\* progressListener.checkFile(fileName), reached from the increment notification
checkFile(c, fileName) ==
    /\ IF NotNull(progress[c])
       THEN LET oldPercent == percentComplete(countChecked[c], nFiles[c])
                newPercent == percentComplete(countChecked[c] + 1, nFiles[c])
            IN  /\ countChecked' = [countChecked EXCEPT ![c] = @ + 1]
                /\ surfaces' = report(progress[c].id, fileName, newPercent - oldPercent)
       ELSE UNCHANGED <<countChecked, surfaces>>
    /\ UNCHANGED <<nFiles, progress, resolve>>
    /\ error' = "none"
    /\ last' = [class |-> c, kind |-> "increment", n |-> 0, fileName |-> fileName]

\* resolve({}) of the promise of surface h: the first call settles the promise
\* and the host closes the indicator; later calls find it settled
callResolve(h) ==
    [surfaces EXCEPT ![h].resolveCalls = @ + 1, ![h].open = FALSE]

\* endCheckFiles without the assignment this.progress = null
endCheckFilesKeepsProgress(c) ==
    /\ countChecked' = [countChecked EXCEPT ![c] = 0]
    /\ nFiles' = [nFiles EXCEPT ![c] = 0]
    /\ IF resolve[c].tag = "surface"
       THEN surfaces' = callResolve(resolve[c].id) /\ error' = "none"
       ELSE surfaces' = surfaces /\ error' = "TypeError"
    /\ UNCHANGED <<progress, resolve>>
    /\ last' = [class |-> c, kind |-> "end", n |-> 0, fileName |-> ""]

\* endCheckFiles without the assignment this.countChecked = 0
endCheckFilesKeepsCount(c) ==
    /\ nFiles' = [nFiles EXCEPT ![c] = 0]
    /\ progress' = [progress EXCEPT ![c] = Null]
    /\ IF resolve[c].tag = "surface"
       THEN surfaces' = callResolve(resolve[c].id) /\ error' = "none"
       ELSE surfaces' = surfaces /\ error' = "TypeError"
    /\ UNCHANGED <<countChecked, resolve>>
    /\ last' = [class |-> c, kind |-> "end", n |-> 0, fileName |-> ""]

\* endCheckFiles with this.nFiles = this.countChecked in place of this.nFiles = 0
endCheckFilesCopiesCount(c) ==
    /\ countChecked' = [countChecked EXCEPT ![c] = 0]
    /\ nFiles' = [nFiles EXCEPT ![c] = countChecked[c]]
    /\ progress' = [progress EXCEPT ![c] = Null]
    /\ IF resolve[c].tag = "surface"
       THEN surfaces' = callResolve(resolve[c].id) /\ error' = "none"
       ELSE surfaces' = surfaces /\ error' = "TypeError"
    /\ UNCHANGED resolve
    /\ last' = [class |-> c, kind |-> "end", n |-> 0, fileName |-> ""]

\* progressListener.endCheckFiles(), reached from the end notification.
\* Calling this.resolve while it is undefined raises a TypeError, after the
\* three assignments have been made.
endCheckFiles(c) ==
    /\ countChecked' = [countChecked EXCEPT ![c] = 0]
    /\ nFiles' = [nFiles EXCEPT ![c] = 0]
    /\ progress' = [progress EXCEPT ![c] = Null]
    /\ IF resolve[c].tag = "surface"
       THEN surfaces' = callResolve(resolve[c].id) /\ error' = "none"
       ELSE surfaces' = surfaces /\ error' = "TypeError"
    /\ UNCHANGED resolve
    /\ last' = [class |-> c, kind |-> "end", n |-> 0, fileName |-> ""]

(***************************************************************************)
(* The notification handlers registered by createProgressListener, one     *)
(* triple per event class.  The guards bound the model.                    *)
(***************************************************************************)
\* totals carried by start notifications
Totals == {0, MaxTotal}

onStart == \E c \in Classes : \E n \in Totals :
    Len(surfaces) < MaxSurfaces /\ startCheckFiles(c, n) /\ UNCHANGED observed

\* number of reports the surfaces 1..h have received
RECURSIVE ReportsSent(_)
ReportsSent(h) ==
    IF h = 0 THEN 0 ELSE Len(surfaces[h].reports) + ReportsSent(h - 1)

onIncrement == \E c \in Classes : \E f \in FileNames :
    ReportsSent(Len(surfaces)) < MaxReports /\ checkFile(c, f) /\ UNCHANGED observed

onEnd == \E c \in Classes :
    /\ resolve[c].tag = "surface" =>
           surfaces[resolve[c].id].resolveCalls < MaxResolveCalls
    /\ endCheckFiles(c)
    /\ UNCHANGED observed

Next == onStart \/ onIncrement \/ onEnd

Spec == Init /\ [][Next]_vars

(***************************************************************************)
(* One listener driven through a single run with a large total: the start  *)
(* notification, at most as many increments as the total, the end.         *)
(***************************************************************************)
runStart == \E n \in 0..MaxRunTotal :
    surfaces = <<>> /\ startCheckFiles(checkEvent, n) /\ UNCHANGED observed

runIncrement ==
    /\ countChecked[checkEvent] < nFiles[checkEvent]
    /\ checkFile(checkEvent, "a")
    /\ UNCHANGED observed

runEnd ==
    NotNull(progress[checkEvent]) /\ endCheckFiles(checkEvent) /\ UNCHANGED observed

NextRun == runStart \/ runIncrement \/ runEnd

SpecRun == Init /\ [][NextRun]_vars

(***************************************************************************)
(* One listener with the increment notifications counted as they are       *)
(* delivered: observed restarts at each start notification and grows with  *)
(* every increment notification, whether or not a run is in progress.      *)
(***************************************************************************)
countStart == \E n \in Totals :
    /\ Len(surfaces) < MaxSurfaces
    /\ startCheckFiles(checkEvent, n)
    /\ observed' = [observed EXCEPT ![checkEvent] = 0]

countIncrement ==
    /\ observed[checkEvent] < MaxObserved
    /\ ReportsSent(Len(surfaces)) < MaxReports
    /\ checkFile(checkEvent, "a")
    /\ observed' = [observed EXCEPT ![checkEvent] = @ + 1]

countEnd ==
    /\ resolve[checkEvent].tag = "surface" =>
           surfaces[resolve[checkEvent].id].resolveCalls < MaxResolveCalls
    /\ endCheckFiles(checkEvent)
    /\ UNCHANGED observed

NextCount == countStart \/ countIncrement \/ countEnd

SpecCount == Init /\ [][NextCount]_vars

(***************************************************************************)
(* Vocabulary of the properties.                                           *)
(***************************************************************************)
Handles == 1..Len(surfaces)
SurfacesOf(c) == {h \in Handles : surfaces[h].owner = c}
OpenSurfacesOf(c) == {h \in SurfacesOf(c) : surfaces[h].open}

\* the surface the most recent start of class c acquired
LatestSurfaceOf(c) == CHOOSE h \in SurfacesOf(c) : \A g \in SurfacesOf(c) : g <= h

\* the notification handled by the step was of this kind and class
Delivered(kind, c) == last'.kind = kind /\ last'.class = c

RECURSIVE SumIncrements(_)
SumIncrements(reports) ==
    IF reports = <<>> THEN 0
    ELSE reports[Len(reports)].increment
         + SumIncrements(SubSeq(reports, 1, Len(reports) - 1))

\* floor(k / (T + 1) * 100) over the rationals
ExactPercent(k, T) == (100 * k) \div (T + 1)

(***************************************************************************)
(* C1: a start delivered while the session is Active releases the surface  *)
(* acquired before, so at most one surface acquired by a session is open   *)
(* in every reachable state.                                               *)
(***************************************************************************)
C1_AtMostOneOpenSurface ==
    \A c \in Classes : Cardinality(OpenSurfacesOf(c)) <= 1

(***************************************************************************)
(* C2: an end notification delivered while the session is Idle, also as    *)
(* the very first notification, raises no error, releases nothing, invokes *)
(* no callback and leaves the session Idle.                                *)
(***************************************************************************)
C2_EndWhileIdleIsNoOp ==
    [][\A c \in Classes :
          (Delivered("end", c) /\ ~NotNull(progress[c])) =>
              /\ error' = "none"
              /\ surfaces' = surfaces
              /\ ~NotNull(progress'[c])]_vars

(***************************************************************************)
(* C3: the release callback of every acquired surface is invoked exactly   *)
(* once: never twice, and never zero times once an end has been delivered  *)
(* to its session.                                                         *)
(***************************************************************************)
C3_ExactlyOneRelease ==
    \A h \in Handles :
        /\ surfaces[h].resolveCalls <= 1
        /\ (last.kind = "end" /\ last.class = surfaces[h].owner)
               => surfaces[h].resolveCalls = 1

(***************************************************************************)
(* C4: when a sequence of notifications on a session finishes with an end  *)
(* notification, no surface acquired by that session remains unreleased.   *)
(***************************************************************************)
C4_NoLeakAfterEnd ==
    \A c \in Classes :
        (last.kind = "end" /\ last.class = c) => OpenSurfacesOf(c) = {}

(***************************************************************************)
(* C5: an increment notification delivered while no run is in progress     *)
(* sends no report, acquires no surface, raises no error and changes none  *)
(* of countChecked, nFiles, progress and resolve.                          *)
(***************************************************************************)
C5_IncrementWhileIdleIsNoOp ==
    [][\A c \in Classes :
          (Delivered("increment", c) /\ ~NotNull(progress[c])) =>
              /\ surfaces' = surfaces
              /\ error' = "none"
              /\ countChecked' = countChecked
              /\ nFiles' = nFiles
              /\ progress' = progress
              /\ resolve' = resolve]_vars

\* an increment was delivered to a session whose run had been ended
C5_Witness ==
    /\ last.kind = "increment"
    /\ progress[last.class] = Null
    /\ SurfacesOf(last.class) # {}
    /\ countChecked[last.class] = 0

(***************************************************************************)
(* C6: no report is sent to a surface whose release callback has been      *)
(* invoked, and every report goes to the surface acquired by the most      *)
(* recent start of its session.                                            *)
(***************************************************************************)
C6_NoReportAfterRelease ==
    [][\A h \in Handles :
          surfaces'[h].reports # surfaces[h].reports =>
              /\ surfaces[h].open
              /\ surfaces[h].resolveCalls = 0
              /\ h = LatestSurfaceOf(surfaces[h].owner)]_vars

\* a second run of a session received a report after the first was released
C6_Witness ==
    \E g \in Handles : \E h \in Handles :
        /\ g < h
        /\ surfaces[g].owner = surfaces[h].owner
        /\ ~surfaces[g].open
        /\ surfaces[h].reports # <<>>
        /\ last.kind = "increment"

(***************************************************************************)
(* C7: a notification of one event class changes only the fields and the   *)
(* surfaces of its own session; the other session's countChecked, nFiles,  *)
(* progress, resolve and surfaces stay as they were.                       *)
(***************************************************************************)
C7_SessionsIsolated ==
    [][\A c \in Classes : \A d \in Classes \ {c} :
          last'.class = c =>
              /\ countChecked'[d] = countChecked[d]
              /\ nFiles'[d] = nFiles[d]
              /\ progress'[d] = progress[d]
              /\ resolve'[d] = resolve[d]
              /\ \A h \in 1..Len(surfaces') :
                     surfaces'[h].owner = d =>
                         h \in Handles /\ surfaces'[h] = surfaces[h]]_vars

\* both sessions are in the middle of a run of their own, each with progress
C7_Witness ==
    /\ NotNull(progress[checkEvent]) /\ NotNull(progress[analyzeEvent])
    /\ countChecked[checkEvent] > 0 /\ countChecked[analyzeEvent] > 0
    /\ nFiles[checkEvent] # nFiles[analyzeEvent]

(***************************************************************************)
(* C8: after start(T) and k <= T increments the percentage the session     *)
(* computes is floor(k / (T + 1) * 100), and it is non-decreasing in k.    *)
(***************************************************************************)
C8_PercentIsExactFloor ==
    \A c \in Classes :
        (NotNull(progress[c]) /\ countChecked[c] <= nFiles[c]) =>
            \A k \in 0..countChecked[c] :
                /\ percentComplete(k, nFiles[c]) = ExactPercent(k, nFiles[c])
                /\ k > 0 => percentComplete(k - 1, nFiles[c])
                                <= percentComplete(k, nFiles[c])

(***************************************************************************)
(* C9: within the run started by start(T), after k increments the deltas   *)
(* reported to the surface sum to percent(k, T) - percent(0, T), where     *)
(* percent(k, T) is floor(k / (T + 1) * 100); start(3) and three           *)
(* increments report 25, 25, 25.                                           *)
(***************************************************************************)
C9_DeltasSumToPercent ==
    \A c \in Classes :
        NotNull(progress[c]) =>
            LET reports == surfaces[progress[c].id].reports
            IN  /\ Len(reports) = countChecked[c]
                /\ SumIncrements(reports)
                       = ExactPercent(countChecked[c], nFiles[c])
                         - ExactPercent(0, nFiles[c])
                /\ (nFiles[c] = 3 /\ countChecked[c] = 3) =>
                       [i \in 1..3 |-> reports[i].increment] = <<25, 25, 25>>

(***************************************************************************)
(* C10: percent(T, T) < 100 for every T >= 0, so in a run with at most T   *)
(* increments the cumulative reported percentage stays below 100.          *)
(***************************************************************************)
C10_NeverReaches100 ==
    \A c \in Classes :
        (NotNull(progress[c]) /\ countChecked[c] <= nFiles[c]) =>
            /\ percentComplete(nFiles[c], nFiles[c]) < 100
            /\ SumIncrements(surfaces[progress[c].id].reports) < 100

\* every item of a run with a large total is complete
C10_Witness ==
    \E c \in Classes :
        /\ NotNull(progress[c])
        /\ nFiles[c] >= 49
        /\ countChecked[c] = nFiles[c]
        /\ SumIncrements(surfaces[progress[c].id].reports) = 98

(***************************************************************************)
(* C11: every delta reported to a surface is non-negative, also with more  *)
(* increments than the total and in runs restarted by a duplicate start.   *)
(***************************************************************************)
C11_DeltasNonNegative ==
    \A h \in Handles : \A i \in 1..Len(surfaces[h].reports) :
        surfaces[h].reports[i].increment >= 0

\* a run restarted by a duplicate start received more reports than its total
C11_Witness ==
    \E g \in Handles : \E h \in Handles :
        /\ g < h
        /\ surfaces[g].owner = surfaces[h].owner
        /\ surfaces[g].resolveCalls = 0
        /\ Len(surfaces[h].reports) > surfaces[h].title[2]

(***************************************************************************)
(* C12: a start(total) notification, from Idle or from Active with         *)
(* countChecked > 0, leaves the session with countChecked = 0, nFiles =    *)
(* total and a newly acquired surface and release callback; the first      *)
(* increment of the new run reports percent(1, total) - percent(0, total). *)
(***************************************************************************)
C12_StartBeginsFreshRun ==
    [][\A c \in Classes :
          /\ Delivered("start", c) =>
                 LET h == Len(surfaces) + 1
                 IN  /\ countChecked'[c] = 0
                     /\ nFiles'[c] = last'.n
                     /\ progress'[c] = Handle(h)
                     /\ resolve'[c] = Handle(h)
                     /\ Len(surfaces') = h
                     /\ surfaces'[h].owner = c
                     /\ surfaces'[h].open
                     /\ surfaces'[h].resolveCalls = 0
                     /\ surfaces'[h].reports = <<>>
          /\ (/\ Delivered("increment", c)
              /\ NotNull(progress[c])
              /\ surfaces[progress[c].id].reports = <<>>) =>
                 LET h == progress[c].id
                     total == surfaces[h].title[2]
                 IN  /\ Len(surfaces'[h].reports) = 1
                     /\ surfaces'[h].reports[1].increment
                            = percentComplete(1, total) - percentComplete(0, total)]_vars

\* the first increment of a run whose start arrived while the session was
\* Active with countChecked > 0
C12_Witness ==
    \E g \in Handles : \E h \in Handles :
        /\ g < h
        /\ surfaces[g].owner = surfaces[h].owner
        /\ surfaces[g].reports # <<>>
        /\ surfaces[g].resolveCalls = 0
        /\ progress[surfaces[h].owner] = Handle(h)
        /\ Len(surfaces[h].reports) = 1
        /\ countChecked[surfaces[h].owner] = 1
        /\ last.kind = "increment"

(***************************************************************************)
(* C13: after an end notification is handled in the Active state, the      *)
(* session is Idle with countChecked and nFiles reset, no surface handle   *)
(* held and no release callback held.                                      *)
(***************************************************************************)
C13_EndClearsRunFields ==
    [][\A c \in Classes :
          (Delivered("end", c) /\ NotNull(progress[c])) =>
              /\ countChecked'[c] = 0
              /\ nFiles'[c] = 0
              /\ ~NotNull(progress'[c])
              /\ ~NotNull(resolve'[c])]_vars

(***************************************************************************)
(* C14: in every reachable state of a session that has seen a start,       *)
(* countChecked is a non-negative integer equal to the number of increment *)
(* notifications observed since the last start.                            *)
(***************************************************************************)
C14_CountIsObserved ==
    \A c \in Classes :
        SurfacesOf(c) # {} =>
            countChecked[c] >= 0 /\ countChecked[c] = observed[c]

(***************************************************************************)
(* C14, amended: countChecked is a non-negative integer; while a surface   *)
(* is held it equals the number of increment notifications observed since  *)
(* the last start, and while no surface is held it is 0.                   *)
(***************************************************************************)
C14_CountWhileRunInProgress ==
    \A c \in Classes :
        /\ countChecked[c] >= 0
        /\ NotNull(progress[c]) => countChecked[c] = observed[c]
        /\ ~NotNull(progress[c]) => countChecked[c] = 0

\* the second run of a session has counted two increments
C14_Witness ==
    \E c \in Classes :
        /\ progress[c] = Handle(2)
        /\ surfaces[1].owner = c
        /\ surfaces[1].resolveCalls = 1
        /\ countChecked[c] = 2
        /\ observed[c] = 2

(***************************************************************************)
(* C15: the surface acquired by a start(total) notification of an event    *)
(* class is labeled "Check <total> files" for the check class and          *)
(* "Analyze <total> projects" for the analyze class, with the total of     *)
(* that notification.                                                      *)
(***************************************************************************)
C15_TitleOfClassAndTotal ==
    /\ \A h \in Handles :
           surfaces[h].title[1] = (IF surfaces[h].owner = "check"
                                   THEN "Check" ELSE "Analyze")
    /\ last.kind = "start" =>
           LET h == Len(surfaces)
           IN  /\ surfaces[h].owner = last.class
               /\ progress[last.class] = Handle(h)
               /\ surfaces[h].title =
                      (IF last.class = "check"
                       THEN <<"Check", last.n, "files">>
                       ELSE <<"Analyze", last.n, "projects">>)

\* the analyze class starts a run with another total than its run before
C15_Witness ==
    /\ last.kind = "start"
    /\ last.class = analyzeEvent
    /\ last.n > 0
    /\ Len(surfaces) = 2
    /\ surfaces[1].owner = analyzeEvent
    /\ surfaces[1].title[2] = 0

(***************************************************************************)
(* C16: an increment notification handled while a surface is held raises   *)
(* countChecked by exactly 1 and sends exactly one report, carrying the    *)
(* notification's label, to the held surface; nFiles, progress and resolve *)
(* stay as they were and no surface is acquired or released.               *)
(***************************************************************************)
C16_IncrementFrame ==
    [][\A c \in Classes :
          (Delivered("increment", c) /\ NotNull(progress[c])) =>
              LET h == progress[c].id
              IN  /\ countChecked'[c] = countChecked[c] + 1
                  /\ nFiles' = nFiles
                  /\ progress' = progress
                  /\ resolve' = resolve
                  /\ Len(surfaces') = Len(surfaces)
                  /\ \A g \in Handles \ {h} : surfaces'[g] = surfaces[g]
                  /\ surfaces'[h].open = surfaces[h].open
                  /\ surfaces'[h].resolveCalls = surfaces[h].resolveCalls
                  /\ surfaces'[h].title = surfaces[h].title
                  /\ Len(surfaces'[h].reports) = Len(surfaces[h].reports) + 1
                  /\ SubSeq(surfaces'[h].reports, 1, Len(surfaces[h].reports))
                         = surfaces[h].reports
                  /\ surfaces'[h].reports[Len(surfaces'[h].reports)].message
                         = last'.fileName]_vars

\* the second increment of a run carried another label than the first
C16_Witness ==
    \E c \in Classes :
        /\ last.kind = "increment" /\ last.class = c
        /\ NotNull(progress[c])
        /\ countChecked[c] = 2
        /\ Len(surfaces[progress[c].id].reports) = 2
        /\ surfaces[progress[c].id].reports[1].message = "a"
        /\ surfaces[progress[c].id].reports[2].message = "b"
        /\ last.fileName = "b"

(***************************************************************************)
(* C17: in every reachable state in which a session holds a surface handle *)
(* it also holds a release callback, and that callback is the one of the   *)
(* held surface, which the session itself acquired.                        *)
(***************************************************************************)
C17_CallbackOfHeldSurface ==
    \A c \in Classes :
        NotNull(progress[c]) =>
            /\ NotNull(resolve[c])
            /\ resolve[c].id = progress[c].id
            /\ progress[c].id \in SurfacesOf(c)

\* a session in its second run, the first run released
C17_Witness ==
    \E c \in Classes :
        /\ progress[c] = Handle(2)
        /\ surfaces[1].owner = c
        /\ ~surfaces[1].open
        /\ surfaces[2].open
        /\ last.kind = "start"

(***************************************************************************)
(* C18: after start(T), increments and an end, a second end delivered      *)
(* immediately afterwards leaves countChecked, nFiles and the surface      *)
(* handle as the first end left them and changes the open or released      *)
(* status of no surface.                                                   *)
(***************************************************************************)
C18_SecondEndChangesNothing ==
    [][\A c \in Classes :
          (/\ Delivered("end", c)
           /\ last.kind = "end" /\ last.class = c
           /\ SurfacesOf(c) # {}) =>
              /\ countChecked'[c] = countChecked[c]
              /\ nFiles'[c] = nFiles[c]
              /\ progress'[c] = progress[c]
              /\ Len(surfaces') = Len(surfaces)
              /\ \A h \in Handles : surfaces'[h].open = surfaces[h].open]_vars

\* a run with an increment has been ended twice in a row
C18_Witness ==
    \E h \in Handles :
        /\ last.kind = "end"
        /\ last.class = surfaces[h].owner
        /\ surfaces[h].reports # <<>>
        /\ surfaces[h].resolveCalls = 2
        /\ ~surfaces[h].open
        /\ progress[surfaces[h].owner] = Null
====
